---- MODULE Spec2Model ----
(***************************************************************************)
(* Model of workersz/base.py: EventAction (a threading.Event coupled with  *)
(* a callable), the action registry of a worker, and the run loop of       *)
(* WorkerBase (src/workersz/base.py) and of its command-aware twin         *)
(* WorkerPollingBase (src/src/workersz/base.py).                           *)
(*                                                                         *)
(* Every worker is a thread; one step of the model is one statement-level  *)
(* step of one thread.  Other threads (the constructing thread and any     *)
(* thread that sets or clears an Event) interleave with the workers.       *)
(***************************************************************************)
EXTENDS Naturals, Sequences, FiniteSets, TLC

VARIABLES
    sig,             \* threading.Event flag of every Event object
    event,           \* EventAction._event of every EventAction object
    variant,         \* class of each worker: "base" | "polling"
    env,             \* how each worker's hooks/target/callbacks are overridden
    actions,         \* WorkerBase.actions (list), per worker
    actions_events,  \* WorkerBase.actions_events (dict), per worker
    to_quit,         \* WorkerBase.to_quit, per worker
    pc,              \* position of each worker thread in run()
    idx,             \* index of the for loop running in check_events / process_events
    set_actions,     \* set_actions / setevents_actions list, per worker
    result,          \* local variable result of run(), per worker
    main,            \* the constructing thread: <<"setup">> | <<"raised", w, a>> | <<"started">>
    ext,             \* threads that signal: "free" | "once" | "done" | "counted"
    log,             \* history: what the loop did in its current (or its last, unfinished) iteration
    passes,          \* history: detection passes started, per worker (saturating)
    fired,           \* history: calls of an automatic action's callback since its Event last went unset -> set
    stable,          \* history: no Event changed since the running detection pass began
    hashed,          \* the EventAction objects in the order of their hash slots in a dict
    hist             \* history, kept when ext = "counted": set() calls on the Event of
                     \* Tracked, calls of its callback, and whether a set() awaits one

vars == <<sig, event, variant, env, actions, actions_events, to_quit, pc, idx,
          set_actions, result, main, ext, log, passes, fired, stable, hashed, hist>>

(***************************************************************************)
(* Bounds and the objects the program is run on.                           *)
(***************************************************************************)
MaxPasses == 2
MaxFired == 3
MaxSets == 2

Workers == {"w1", "w2"}
Signals == {"q", "s1", "s2"}
UserActs == {"a1", "a2"}
WorkValues == {"v41", "v42"}

QuitAct(w) == IF w = "w1" THEN "quit_w1" ELSE "quit_w2"
QuitActs == {QuitAct(w) : w \in Workers}
Acts == UserActs \cup QuitActs

\* The Event each EventAction object was constructed with.
CtorEvent(a) ==
    CASE a = "a1" -> "s1"
      [] a = "a2" -> "s2"
      [] OTHER    -> "q"

opt_automatic_all(a) == TRUE

\* EventAction.opt_automatic: a2 was built with automatic_trigger=True.
opt_automatic(a) == a = "a2"

Min(x, y) == IF x < y THEN x ELSE y
Range(s) == {s[k] : k \in DOMAIN s}
Last(s) == s[Len(s)]
EmptyMap == [x \in {} |-> "q"]

(***************************************************************************)
(* Registry.                                                               *)
(***************************************************************************)
add_action_nocheck(as, ae, a) ==
    [actions        |-> Append(as, a),
     actions_events |-> [x \in (DOMAIN ae) \cup {a} |-> IF x = a THEN event[a] ELSE ae[x]],
     raised         |-> FALSE]

\* WorkerBase.add_action on the registry (as, ae).
add_action(as, ae, a) ==
    IF a \in Range(as)
    THEN [actions |-> as, actions_events |-> ae, raised |-> TRUE]
    ELSE [actions        |-> Append(as, a),
          actions_events |-> [x \in (DOMAIN ae) \cup {a} |->
                                 IF x = a THEN event[a] ELSE ae[x]],
          raised         |-> FALSE]

\* WorkerBase.__init__: the registry after construction with e_quit given or None.
Constructed(w, e_quit) ==
    IF e_quit # "None" THEN add_action(<<>>, EmptyMap, QuitAct(w))
    ELSE [actions |-> <<>>, actions_events |-> EmptyMap, raised |-> FALSE]

\* WorkerBase.event_by_action.
event_by_action(w, a) ==
    IF a \in DOMAIN actions_events[w] THEN actions_events[w][a] ELSE "None"

\* The keys of actions_events in the order iteritems() yields them: a Python 2
\* dict iterates in the order of its hash slots, and an object hashes by its
\* address, so the order is that of hashed, whatever the order of insertion.
DictOrder(w) == SelectSeq(hashed, LAMBDA a : a \in DOMAIN actions_events[w])

\* WorkerBase.action_by_event: the first key in iteration order whose value is
\* the Event e; None when the loop ends without a return.
action_by_event(w, e) ==
    LET it == DictOrder(w)
        hits == {k \in DOMAIN it : actions_events[w][it[k]] = e}
    IN IF hits = {} THEN "None"
       ELSE it[CHOOSE k \in hits : \A j \in hits : k <= j]

(***************************************************************************)
(* Pieces of EventAction and of run().                                     *)
(***************************************************************************)
is_set_always(a) == TRUE

is_set_negated(a) == ~sig[event[a]]

\* EventAction.is_set: the value polled from the Event.
is_set(a) == sig[event[a]]

_quit_noop(tq) == tq

\* WorkerBase._quit on the flag to_quit.
_quit(tq) == TRUE

dispatch_reversed(sa, k) == sa[Len(sa) + 1 - k]

\* The k-th element the for loop of process_events takes from its list.
dispatch_item(sa, k) == sa[k]

command_never_stops(r) == FALSE

command_stops_on_none(r) == r \in {"False", "None"}

\* `False == self.do_command()`
command_stops(r) == r = "False"

postevents_never_stops(r) == FALSE

\* `False == self.do_postevents()`
postevents_stops(r) == r = "False"

\* `False == self.do_postwork()`
postwork_stops(r) == r = "False"

result_arg_none(res) == "None"

\* The argument run() hands to do_result.
result_arg(res) == res

not_cleared(flag) == flag

dispatches_if_set(a) == sig[event[a]]

\* process_events calls every item of the list it is given; it does not read
\* the item's Event again.
dispatches(a) == TRUE

\* threading.Event.clear() on the flag of the Event.
cleared(flag) == FALSE

swallow(next) == next

restart(next) == "loop"

\* An exception raised in run() is caught nowhere: the thread ends, whatever
\* statement `next` would have followed.
propagate(next) == "failed"

\* What a callback may do: _quit returns; a user's callable may raise.
CallbackOutcomes(w, a) ==
    IF a \in QuitActs \/ env[w] = "default" THEN {"return"} ELSE {"return", "raise"}

\* What a hook may do, by how it is overridden.
HookDefault(h) == IF h = "do_command" THEN "None" ELSE "True"

\* What a hook may do, by how it is overridden: "default" overrides nothing,
\* "pe_stop" overrides do_postevents alone, to return False, and "free"
\* overrides every hook with one that may return either way or raise.
HookOutcomes(w, h) ==
    IF env[w] = "free" THEN {HookDefault(h), "False", "raise"}
    ELSE IF env[w] = "pe_stop" /\ h = "do_postevents" THEN {"False"}
    ELSE {HookDefault(h)}

\* What do_work may do: return the target's value, or raise.
WorkOutcomes(w) ==
    IF env[w] = "default" THEN WorkValues ELSE WorkValues \cup {"raise"}

\* The flag to_quit after callback a has returned.
AfterCallback(a) ==
    [w \in Workers |-> IF a = QuitAct(w) THEN _quit(to_quit[w]) ELSE to_quit[w]]

\* The EventAction objects built with automatic_trigger=True.
AutoActs == {a \in Acts : opt_automatic(a)}

Bump(a) ==
    IF a \in AutoActs THEN [fired EXCEPT ![a] = Min(@ + 1, MaxFired)] ELSE fired

Logged(w, entries) == [log EXCEPT ![w] = @ \o entries]

\* The action whose Event and callback hist follows.
Tracked == "a1"

NoHist == [sets |-> 0, calls |-> 0, pending |-> FALSE]

\* hist after a set() of Event e by another thread.
HistSet(e) ==
    IF ext = "counted" /\ e = event[Tracked]
    THEN [hist EXCEPT !.sets = @ + 1, !.pending = TRUE]
    ELSE hist

\* hist after the callback of action a has been invoked.
HistCall(a) ==
    IF ext = "counted" /\ a = Tracked
    THEN [hist EXCEPT !.calls = Min(@ + 1, MaxSets + 1), !.pending = FALSE]
    ELSE hist

\* The EventAction objects by ascending id(), when each was allocated after
\* the one before it.
CreationOrder == <<"quit_w1", "quit_w2", "a1", "a2">>

(***************************************************************************)
(* Initial states.                                                         *)
(***************************************************************************)
InitCommon ==
    /\ sig = [e \in Signals |-> FALSE]
    /\ event = [a \in Acts |-> CtorEvent(a)]
    /\ to_quit = [w \in Workers |-> FALSE]
    /\ idx = [w \in Workers |-> 1]
    /\ set_actions = [w \in Workers |-> <<>>]
    /\ result = [w \in Workers |-> "None"]
    /\ main = <<"setup">>
    /\ log = [w \in Workers |-> <<>>]
    /\ passes = [w \in Workers |-> 0]
    /\ fired = [a \in AutoActs |-> 0]
    /\ stable = [w \in Workers |-> TRUE]
    /\ hist = NoHist

\* One worker w1, of either class, constructed with or without a quit Event.
Init ==
    /\ InitCommon
    /\ \E v \in {"base", "polling"} : variant = [w \in Workers |-> v]
    /\ \E m \in {"free", "pe_stop"} : env = [w \in Workers |-> m]
    /\ \E e_quit \in {"q", "None"} :
          /\ actions = [w \in Workers |->
                IF w = "w1" THEN Constructed(w, e_quit).actions ELSE <<>>]
          /\ actions_events = [w \in Workers |->
                IF w = "w1" THEN Constructed(w, e_quit).actions_events ELSE EmptyMap]
    /\ pc = [w \in Workers |-> IF w = "w1" THEN "new" ELSE "absent"]
    /\ ext = "free"
    /\ hashed = CreationOrder

(***************************************************************************)
(* The constructing thread.                                                *)
(***************************************************************************)
\* worker.add_action(a), before the worker is started.
AddAction(w, a) ==
    /\ main[1] = "setup"
    /\ pc[w] = "new"
    /\ LET r == add_action(actions[w], actions_events[w], a) IN
          /\ actions' = [actions EXCEPT ![w] = r.actions]
          /\ actions_events' = [actions_events EXCEPT ![w] = r.actions_events]
          /\ main' = IF r.raised THEN <<"raised", w, a>> ELSE <<"setup">>
    /\ UNCHANGED <<sig, event, variant, env, to_quit, pc, idx, set_actions, result,
                   ext, log, passes, fired, stable, hashed, hist>>

\* The caller handles the exception add_action raised and goes on.
Recover ==
    /\ main[1] = "raised"
    /\ main' = <<"setup">>
    /\ UNCHANGED <<sig, event, variant, env, actions, actions_events, to_quit, pc, idx,
                   set_actions, result, ext, log, passes, fired, stable, hashed, hist>>

\* `action.event = e` (the setter of EventAction.event), by the constructing thread.
SetEvent(a, e) ==
    /\ main[1] = "setup"
    /\ event[a] # e
    /\ event' = [event EXCEPT ![a] = e]
    /\ UNCHANGED <<sig, variant, env, actions, actions_events, to_quit, pc, idx,
                   set_actions, result, main, ext, log, passes, fired, stable, hashed,
                   hist>>

\* Thread.start(): every constructed worker begins run().
Start ==
    /\ main[1] = "setup"
    /\ main' = <<"started">>
    /\ pc' = [w \in Workers |-> IF pc[w] = "new" THEN "loop" ELSE pc[w]]
    /\ UNCHANGED <<sig, event, variant, env, actions, actions_events, to_quit, idx,
                   set_actions, result, ext, log, passes, fired, stable, hashed, hist>>

(***************************************************************************)
(* Threads that signal.                                                    *)
(***************************************************************************)
Unstable == [w \in Workers |-> IF pc[w] = "check" THEN FALSE ELSE stable[w]]

\* Event.set() by a thread other than the workers.
ExtSet(e) ==
    /\ ext \in {"free", "once", "counted"}
    /\ ext = "once" => e = "q" /\ main[1] = "started"
    /\ (ext = "counted" /\ e = event[Tracked]) => hist.sets < MaxSets
    /\ ext' = IF ext = "once" THEN "done" ELSE ext
    /\ hist' = HistSet(e)
    /\ sig' = [sig EXCEPT ![e] = TRUE]
    /\ fired' = IF sig[e] THEN fired
                ELSE [a \in AutoActs |-> IF event[a] = e THEN 0 ELSE fired[a]]
    /\ stable' = IF sig[e] THEN stable ELSE Unstable
    /\ UNCHANGED <<event, variant, env, actions, actions_events, to_quit, pc, idx,
                   set_actions, result, main, log, passes, hashed>>

\* Event.clear() by a thread other than the workers.
ExtClear(e) ==
    /\ ext = "free"
    /\ sig[e]
    /\ sig' = [sig EXCEPT ![e] = FALSE]
    /\ stable' = Unstable
    /\ UNCHANGED <<event, variant, env, actions, actions_events, to_quit, pc, idx,
                   set_actions, result, main, ext, log, passes, fired, hashed, hist>>

(***************************************************************************)
(* run(), one statement at a time.                                         *)
(***************************************************************************)
\* `while not self.to_quit:` and the entry into check_events.
LoopTest(w) ==
    /\ pc[w] = "loop"
    /\ IF to_quit[w]
       THEN /\ pc' = [pc EXCEPT ![w] = "stopped"]
            /\ UNCHANGED <<idx, set_actions, passes, stable>>
       ELSE /\ pc' = [pc EXCEPT ![w] = "check"]
            /\ idx' = [idx EXCEPT ![w] = 1]
            /\ set_actions' = [set_actions EXCEPT ![w] = <<>>]
            /\ passes' = [passes EXCEPT ![w] = Min(@ + 1, MaxPasses)]
            /\ stable' = [stable EXCEPT ![w] = TRUE]
    /\ UNCHANGED <<sig, event, variant, env, actions, actions_events, to_quit, result,
                   main, ext, log, fired, hashed, hist>>

\* check_events: one turn of `for action in self.actions: if action.is_set(): ...`
Poll(w) ==
    /\ pc[w] = "check"
    /\ idx[w] <= Len(actions[w])
    /\ LET a == actions[w][idx[w]]
           s == is_set(a)
           auto == s /\ opt_automatic(a)
       IN \E out \in (IF auto THEN CallbackOutcomes(w, a) ELSE {"none"}) :
            /\ log' = Logged(w, (IF auto THEN <<<<"is_set_call", a>>>> ELSE <<>>)
                                \o (IF out = "raise" THEN <<<<"raise", a>>>> ELSE <<>>))
            /\ fired' = IF auto THEN Bump(a) ELSE fired
            /\ hist' = IF auto THEN HistCall(a) ELSE hist
            /\ to_quit' = IF auto /\ out = "return" THEN AfterCallback(a) ELSE to_quit
            /\ pc' = [pc EXCEPT ![w] = IF out = "raise" THEN propagate("check") ELSE "check"]
            /\ set_actions' = [set_actions EXCEPT ![w] =
                                  IF s /\ out # "raise" THEN Append(@, a) ELSE @]
            /\ idx' = [idx EXCEPT ![w] = IF out = "raise" THEN @ ELSE @ + 1]
    /\ UNCHANGED <<sig, event, variant, env, actions, actions_events, result, main, ext,
                   passes, stable, hashed>>

\* check_events returns; run() goes on to do_command (polling) or process_events (base).
CheckReturn(w) ==
    /\ pc[w] = "check"
    /\ idx[w] > Len(actions[w])
    /\ pc' = [pc EXCEPT ![w] = IF variant[w] = "polling" THEN "command" ELSE "dispatch"]
    /\ idx' = [idx EXCEPT ![w] = 1]
    /\ UNCHANGED <<sig, event, variant, env, actions, actions_events, to_quit, set_actions,
                   result, main, ext, log, passes, fired, stable, hashed, hist>>

\* WorkerPollingBase.run: `if False == self.do_command(): break`
Command(w) ==
    /\ pc[w] = "command"
    /\ \E r \in HookOutcomes(w, "do_command") :
          /\ log' = Logged(w, IF r = "raise" THEN <<<<"do_command", "called">>, <<"raise", "do_command">>>>
                              ELSE <<<<"do_command", r>>>>)
          /\ pc' = [pc EXCEPT ![w] =
                       IF r = "raise" THEN propagate("dispatch")
                       ELSE IF command_stops(r) THEN "stopped" ELSE "dispatch"]
    /\ UNCHANGED <<sig, event, variant, env, actions, actions_events, to_quit, idx,
                   set_actions, result, main, ext, passes, fired, stable, hashed, hist>>

\* process_events: `act.call_action()`
DispatchCall(w) ==
    /\ pc[w] = "dispatch"
    /\ idx[w] <= Len(set_actions[w])
    /\ LET a == dispatch_item(set_actions[w], idx[w]) IN
       \E out \in (IF dispatches(a) THEN CallbackOutcomes(w, a) ELSE {"skip"}) :
          /\ log' = Logged(w, (IF out = "skip" THEN <<>> ELSE <<<<"call_action", a>>>>)
                              \o (IF out = "raise" THEN <<<<"raise", a>>>> ELSE <<>>))
          /\ fired' = IF out = "skip" THEN fired ELSE Bump(a)
          /\ hist' = IF out = "skip" THEN hist ELSE HistCall(a)
          /\ to_quit' = IF out = "return" THEN AfterCallback(a) ELSE to_quit
          /\ pc' = [pc EXCEPT ![w] = IF out = "raise" THEN propagate("clear") ELSE "clear"]
    /\ UNCHANGED <<sig, event, variant, env, actions, actions_events, idx, set_actions,
                   result, main, ext, passes, stable, hashed>>

\* process_events: `act.event.clear()`
DispatchClear(w) ==
    /\ pc[w] = "clear"
    /\ LET a == dispatch_item(set_actions[w], idx[w]) IN
          /\ sig' = [sig EXCEPT ![event[a]] = cleared(@)]
          /\ log' = Logged(w, <<<<"clear", a>>>>)
    /\ idx' = [idx EXCEPT ![w] = @ + 1]
    /\ pc' = [pc EXCEPT ![w] = "dispatch"]
    /\ UNCHANGED <<event, variant, env, actions, actions_events, to_quit, set_actions,
                   result, main, ext, passes, fired, stable, hashed, hist>>

\* process_events returns.
DispatchReturn(w) ==
    /\ pc[w] = "dispatch"
    /\ idx[w] > Len(set_actions[w])
    /\ pc' = [pc EXCEPT ![w] = "postevents"]
    /\ UNCHANGED <<sig, event, variant, env, actions, actions_events, to_quit, idx,
                   set_actions, result, main, ext, log, passes, fired, stable, hashed, hist>>

\* `if False == self.do_postevents(): break`
PostEvents(w) ==
    /\ pc[w] = "postevents"
    /\ \E r \in HookOutcomes(w, "do_postevents") :
          /\ log' = Logged(w, IF r = "raise" THEN <<<<"do_postevents", "called">>, <<"raise", "do_postevents">>>>
                              ELSE <<<<"do_postevents", r>>>>)
          /\ pc' = [pc EXCEPT ![w] =
                       IF r = "raise" THEN propagate("work")
                       ELSE IF postevents_stops(r) THEN "stopped" ELSE "work"]
    /\ UNCHANGED <<sig, event, variant, env, actions, actions_events, to_quit, idx,
                   set_actions, result, main, ext, passes, fired, stable, hashed, hist>>

\* `result = self.do_work()`
Work(w) ==
    /\ pc[w] = "work"
    /\ \E v \in WorkOutcomes(w) :
          /\ log' = Logged(w, IF v = "raise" THEN <<<<"do_work", "called">>, <<"raise", "do_work">>>>
                              ELSE <<<<"do_work", v>>>>)
          /\ result' = [result EXCEPT ![w] = IF v = "raise" THEN @ ELSE v]
          /\ pc' = [pc EXCEPT ![w] = IF v = "raise" THEN propagate("result") ELSE "result"]
    /\ UNCHANGED <<sig, event, variant, env, actions, actions_events, to_quit, idx,
                   set_actions, main, ext, passes, fired, stable, hashed, hist>>

\* `self.do_result(result)`
Result(w) ==
    /\ pc[w] = "result"
    /\ \E out \in (IF env[w] = "default" THEN {"return"} ELSE {"return", "raise"}) :
          /\ log' = Logged(w, <<<<"do_result", result_arg(result[w])>>>>
                              \o (IF out = "raise" THEN <<<<"raise", "do_result">>>> ELSE <<>>))
          /\ pc' = [pc EXCEPT ![w] = IF out = "raise" THEN propagate("postwork") ELSE "postwork"]
    /\ UNCHANGED <<sig, event, variant, env, actions, actions_events, to_quit, idx,
                   set_actions, result, main, ext, passes, fired, stable, hashed, hist>>

\* `if False == self.do_postwork(): break`
PostWork(w) ==
    /\ pc[w] = "postwork"
    /\ \E r \in HookOutcomes(w, "do_postwork") :
          /\ log' = IF r = "raise"
                    THEN Logged(w, <<<<"do_postwork", "called">>, <<"raise", "do_postwork">>>>)
                    ELSE IF postwork_stops(r) THEN Logged(w, <<<<"do_postwork", r>>>>)
                    ELSE [log EXCEPT ![w] = <<>>]
          /\ pc' = [pc EXCEPT ![w] =
                       IF r = "raise" THEN propagate("loop")
                       ELSE IF postwork_stops(r) THEN "stopped" ELSE "loop"]
    /\ UNCHANGED <<sig, event, variant, env, actions, actions_events, to_quit, idx,
                   set_actions, result, main, ext, passes, fired, stable, hashed, hist>>

WorkerStep(w) ==
    \/ LoopTest(w)
    \/ Poll(w)
    \/ CheckReturn(w)
    \/ Command(w)
    \/ DispatchCall(w)
    \/ DispatchClear(w)
    \/ DispatchReturn(w)
    \/ PostEvents(w)
    \/ Work(w)
    \/ Result(w)
    \/ PostWork(w)

Next ==
    \/ \E w \in Workers, a \in UserActs : AddAction(w, a)
    \/ Recover
    \/ Start
    \/ \E e \in Signals : ExtSet(e)
    \/ \E e \in Signals : ExtClear(e)
    \/ \E w \in Workers : WorkerStep(w)

Spec == Init /\ [][Next]_vars

(***************************************************************************)
(* Two workers constructed with one shared quit Event, nothing overridden, *)
(* and one thread that sets the quit Event once after the workers started. *)
(***************************************************************************)
Init2 ==
    /\ InitCommon
    /\ variant \in [Workers -> {"base", "polling"}]
    /\ env = [w \in Workers |-> "default"]
    /\ actions = [w \in Workers |-> Constructed(w, "q").actions]
    /\ actions_events = [w \in Workers |-> Constructed(w, "q").actions_events]
    /\ pc = [w \in Workers |-> "new"]
    /\ ext = "once"
    /\ hashed = CreationOrder

Next2 ==
    \/ Start
    \/ \E e \in Signals : ExtSet(e)
    \/ \E w \in Workers : WorkerStep(w)

\* Every thread that can take a step is eventually scheduled.
Spec2 ==
    /\ Init2
    /\ [][Next2]_vars
    /\ WF_vars(Start)
    /\ WF_vars(\E e \in Signals : ExtSet(e))
    /\ \A w \in Workers : WF_vars(WorkerStep(w))

(***************************************************************************)
(* The registry alone: one worker not yet started, with the objects laid   *)
(* out in memory in any order; actions are registered and rebound.         *)
(***************************************************************************)
Layouts == {p \in [1..Cardinality(Acts) -> Acts] : \A a \in Acts : \E k \in DOMAIN p : p[k] = a}

InitReg ==
    /\ InitCommon
    /\ variant = [w \in Workers |-> "base"]
    /\ env = [w \in Workers |-> "default"]
    /\ \E e_quit \in {"q", "None"} :
          /\ actions = [w \in Workers |->
                IF w = "w1" THEN Constructed(w, e_quit).actions ELSE <<>>]
          /\ actions_events = [w \in Workers |->
                IF w = "w1" THEN Constructed(w, e_quit).actions_events ELSE EmptyMap]
    /\ pc = [w \in Workers |-> IF w = "w1" THEN "new" ELSE "absent"]
    /\ ext = "free"
    /\ hashed \in Layouts

NextReg ==
    \/ \E w \in Workers, a \in UserActs : AddAction(w, a)
    \/ Recover
    \/ \E a \in UserActs, e \in Signals : SetEvent(a, e)

SpecReg == InitReg /\ [][NextReg]_vars

(***************************************************************************)
(* One worker of either class with no hook overridden and a target and     *)
(* callbacks that return; any thread may set and clear the Events.         *)
(***************************************************************************)
InitDefault ==
    /\ InitCommon
    /\ \E v \in {"base", "polling"} : variant = [w \in Workers |-> v]
    /\ env = [w \in Workers |-> "default"]
    /\ \E e_quit \in {"q", "None"} :
          /\ actions = [w \in Workers |->
                IF w = "w1" THEN Constructed(w, e_quit).actions ELSE <<>>]
          /\ actions_events = [w \in Workers |->
                IF w = "w1" THEN Constructed(w, e_quit).actions_events ELSE EmptyMap]
    /\ pc = [w \in Workers |-> IF w = "w1" THEN "new" ELSE "absent"]
    /\ ext = "free"
    /\ hashed = CreationOrder

SpecDefault == InitDefault /\ [][Next]_vars

(***************************************************************************)
(* One worker without a quit Event and with nothing overridden, so that it *)
(* runs for ever; other threads set the Events and nobody but the worker   *)
(* clears them.  The sets of the Event of Tracked and the calls of its     *)
(* callback are counted.                                                   *)
(***************************************************************************)
InitCounted ==
    /\ InitCommon
    /\ \E v \in {"base", "polling"} : variant = [w \in Workers |-> v]
    /\ env = [w \in Workers |-> "default"]
    /\ actions = [w \in Workers |->
          IF w = "w1" THEN Constructed(w, "None").actions ELSE <<>>]
    /\ actions_events = [w \in Workers |->
          IF w = "w1" THEN Constructed(w, "None").actions_events ELSE EmptyMap]
    /\ pc = [w \in Workers |-> IF w = "w1" THEN "new" ELSE "absent"]
    /\ ext = "counted"
    /\ hashed = CreationOrder

NextCounted ==
    \/ \E w \in Workers, a \in UserActs : AddAction(w, a)
    \/ Recover
    \/ Start
    \/ \E e \in Signals : ExtSet(e)
    \/ \E w \in Workers : WorkerStep(w)

\* The constructing thread and the worker's thread are eventually scheduled.
SpecCounted ==
    /\ InitCounted
    /\ [][NextCounted]_vars
    /\ WF_vars(Start)
    /\ \A w \in Workers : WF_vars(WorkerStep(w))

(***************************************************************************)
(* One worker with a quit Event and an action a1 built on that same Event, *)
(* every hook overridden.  Either any thread sets and clears the Events at *)
(* will, or the quit Event is set once and nothing else is touched.        *)
(***************************************************************************)
InitShared ==
    /\ sig = [e \in Signals |-> FALSE]
    /\ event = [a \in Acts |-> IF a = "a1" THEN "q" ELSE CtorEvent(a)]
    /\ to_quit = [w \in Workers |-> FALSE]
    /\ idx = [w \in Workers |-> 1]
    /\ set_actions = [w \in Workers |-> <<>>]
    /\ result = [w \in Workers |-> "None"]
    /\ main = <<"setup">>
    /\ log = [w \in Workers |-> <<>>]
    /\ passes = [w \in Workers |-> 0]
    /\ fired = [a \in AutoActs |-> 0]
    /\ stable = [w \in Workers |-> TRUE]
    /\ hist = NoHist
    /\ \E v \in {"base", "polling"} : variant = [w \in Workers |-> v]
    /\ env = [w \in Workers |-> "free"]
    /\ actions = [w \in Workers |->
          IF w = "w1" THEN Constructed(w, "q").actions ELSE <<>>]
    /\ actions_events = [w \in Workers |->
          IF w = "w1" THEN Constructed(w, "q").actions_events ELSE EmptyMap]
    /\ pc = [w \in Workers |-> IF w = "w1" THEN "new" ELSE "absent"]
    /\ ext \in {"free", "once"}
    /\ hashed = CreationOrder

SpecShared == InitShared /\ [][Next]_vars

(***************************************************************************)
(* Properties.                                                             *)
(***************************************************************************)
\* The calls and clears of process_events in the log of w, in the order made.
DispatchLog(w) == SelectSeq(log[w], LAMBDA x : x[1] \in {"call_action", "clear"})

\* call, clear, call, clear, ... over the list sa in its order.
FullDispatch(sa) ==
    [k \in 1..(2 * Len(sa)) |->
        IF k % 2 = 1 THEN <<"call_action", sa[(k + 1) \div 2]>>
        ELSE <<"clear", sa[k \div 2]>>]

IsPrefix(s, t) == Len(s) <= Len(t) /\ s = SubSeq(t, 1, Len(s))

Kinds(w) == {log[w][k][1] : k \in DOMAIN log[w]}

\* C1: once a detection pass of a worker has found the quit Event set (its quit
\* action is in the list check_events returned), the worker starts no further
\* detection pass: from the loop test it can only stop; and a worker stops
\* only at the loop test or at a hook's veto, never in the middle of
\* detection, dispatch, do_work or do_result.
C1_QuitStopsWithinIteration ==
    [][\A w \in Workers :
          /\ (pc[w] = "loop" /\ QuitAct(w) \in Range(set_actions[w]))
                => pc'[w] \in {"loop", "stopped"}
          /\ (pc'[w] = "stopped" /\ pc[w] # "stopped")
                => pc[w] \in {"loop", "command", "postevents", "postwork"}]_vars

\* C1 witness: the first pass found the quit Event set, do_work ran in that
\* iteration, and the worker stopped at the next loop test.
C1_Witness ==
    /\ pc["w1"] = "stopped"
    /\ to_quit["w1"]
    /\ QuitAct("w1") \in Range(set_actions["w1"])
    /\ passes["w1"] = 1
    /\ result["w1"] # "None"
    /\ log["w1"] = <<>>

\* C2: after the one set() of the shared quit Event, every worker eventually
\* stops.
C2_AllWorkersStop == (ext = "done") ~> (\A w \in Workers : pc[w] = "stopped")

\* C3: the callback of an automatic action is invoked at most once between two
\* unset -> set transitions of its Event.
C3_AutomaticOncePerSet == \A a \in AutoActs : fired[a] <= 1

\* C4: while no Event has changed since the pass began, the list built by
\* check_events is exactly the already polled actions whose Event is set, in
\* registration order, each once; at the end of the pass that is the whole
\* signaled subset of the registry.
C4_DetectionExact ==
    \A w \in Workers :
        (pc[w] = "check" /\ stable[w]
           /\ \A m, n \in DOMAIN actions[w] :
                 m # n => event[actions[w][m]] # event[actions[w][n]])
        => set_actions[w]
             = SelectSeq(SubSeq(actions[w], 1, idx[w] - 1), LAMBDA a : sig[event[a]])

\* C4 witness: a finished pass over three actions of which the first and the
\* last are signaled.
C4_Witness ==
    /\ pc["w1"] = "check"
    /\ stable["w1"]
    /\ actions["w1"] = <<"quit_w1", "a2", "a1">>
    /\ idx["w1"] = 4
    /\ set_actions["w1"] = <<"quit_w1", "a1">>
    /\ ~sig["s2"]

NoDuplicates(seq) == \A m, n \in DOMAIN seq : m # n => seq[m] # seq[n]

\* C5: an add_action that raises names an action that was registered already and
\* leaves the list and the dict as they were; the list grows only by an action
\* that was not in it, so it never holds an action twice.
C5_DuplicateAddRejected ==
    [][\A w \in Workers :
          /\ (main[1] = "setup" /\ main'[1] = "raised" /\ main'[2] = w)
                => /\ main'[3] \in Range(actions[w])
                   /\ actions'[w] = actions[w]
                   /\ actions_events'[w] = actions_events[w]
          /\ Len(actions'[w]) > Len(actions[w])
                => /\ Len(actions'[w]) = Len(actions[w]) + 1
                   /\ SubSeq(actions'[w], 1, Len(actions[w])) = actions[w]
                   /\ Last(actions'[w]) \notin Range(actions[w])
          /\ NoDuplicates(actions'[w])]_vars

\* C5 witness: add_action has raised on a registry of three actions.
C5_Witness ==
    /\ main[1] = "raised"
    /\ main[2] = "w1"
    /\ Len(actions["w1"]) = 3

\* C6: what process_events has done so far is a prefix of call(x1), clear(x1),
\* call(x2), clear(x2), ... over the detected list in its (registration)
\* order, as long as the position in the loop says.
C6_DispatchOrder ==
    \A w \in Workers :
        /\ IsPrefix(DispatchLog(w), FullDispatch(set_actions[w]))
        /\ pc[w] = "dispatch" => Len(DispatchLog(w)) = 2 * (idx[w] - 1)
        /\ pc[w] = "clear" => Len(DispatchLog(w)) = 2 * idx[w] - 1
        /\ pc[w] \in {"postevents", "work", "result", "postwork"}
              => DispatchLog(w) = FullDispatch(set_actions[w])
        /\ IsPrefix(set_actions[w],
                    SelectSeq(actions[w], LAMBDA a : a \in Range(set_actions[w])))

\* C6 witness: three detected actions have all been dispatched.
C6_Witness ==
    /\ pc["w1"] = "postevents"
    /\ Len(set_actions["w1"]) = 3
    /\ Len(DispatchLog("w1")) = 6

\* C7: with do_postevents overridden to return False, the worker starts at most
\* one detection pass, never reaches do_work, do_result or do_postwork, and
\* when it has stopped it has made one pass and one full dispatch, the veto
\* being the last thing it did.
C7_PostEventsVeto ==
    \A w \in Workers :
        env[w] = "pe_stop" =>
            /\ passes[w] <= 1
            /\ pc[w] \notin {"work", "result", "postwork"}
            /\ result[w] = "None"
            /\ Kinds(w) \cap {"do_work", "do_result", "do_postwork"} = {}
            /\ pc[w] = "stopped" =>
                  /\ passes[w] = 1
                  /\ Last(log[w]) = <<"do_postevents", "False">>
                  /\ DispatchLog(w) = FullDispatch(set_actions[w])

\* C7 witness: stopped by the veto after dispatching two signaled actions.
C7_Witness ==
    /\ env["w1"] = "pe_stop"
    /\ pc["w1"] = "stopped"
    /\ Len(set_actions["w1"]) = 2

\* C8: in an iteration do_result is called at most once, right after do_work
\* returned and with the value it returned; do_postwork is called only right
\* after do_result returned; a do_work that returned is followed by do_result.
C8_ResultRouting ==
    \A w \in Workers :
        LET L == log[w] IN
        /\ Cardinality({k \in DOMAIN L : L[k][1] = "do_result"}) <= 1
        /\ \A k \in DOMAIN L :
              /\ L[k][1] = "do_result"
                    => k > 1 /\ L[k - 1][1] = "do_work" /\ L[k - 1][2] \in WorkValues
                       /\ L[k][2] = L[k - 1][2]
              /\ L[k][1] = "do_postwork"
                    => k > 1 /\ L[k - 1][1] = "do_result"
              /\ (L[k][1] = "do_work" /\ k < Len(L))
                    => L[k + 1] \in {<<"do_result", L[k][2]>>, <<"raise", "do_work">>}
        /\ pc[w] = "result" => Last(L) = <<"do_work", result[w]>>
        /\ pc[w] = "postwork" => Last(L) = <<"do_result", result[w]>>

\* C8 witness: do_work returned v42 and do_result has been called with it.
C8_Witness ==
    /\ pc["w1"] = "postwork"
    /\ Last(log["w1"]) = <<"do_result", "v42">>

\* C9: when do_command returned False, that is the last thing the worker did:
\* it has stopped, and process_events called no callback and cleared no Event
\* in that iteration.
C9_CommandVetoSkipsDispatch ==
    \A w \in Workers :
        \A k \in DOMAIN log[w] :
            log[w][k] = <<"do_command", "False">>
            => /\ k = Len(log[w])
               /\ pc[w] = "stopped"
               /\ DispatchLog(w) = <<>>

\* C9 witness: stopped by do_command with a detected action left undispatched.
C9_Witness ==
    /\ variant["w1"] = "polling"
    /\ pc["w1"] = "stopped"
    /\ Len(log["w1"]) > 0
    /\ Last(log["w1"]) = <<"do_command", "False">>
    /\ set_actions["w1"] = <<"quit_w1", "a1">>
    /\ sig["q"] /\ sig["s1"]
    /\ ~to_quit["w1"]

\* C10: an exception raised by a callback, a hook or do_work is the last thing
\* the worker did, and the thread has ended; a thread ends this way only.
C10_FailurePropagates ==
    \A w \in Workers :
        /\ \A k \in DOMAIN log[w] :
              log[w][k][1] = "raise" => k = Len(log[w]) /\ pc[w] = "failed"
        /\ pc[w] = "failed" => Len(log[w]) > 1 /\ Last(log[w])[1] = "raise"

\* C10 witness: the callback of the first of two detected actions raised; its
\* Event is still set and the second action was not dispatched.
C10_Witness ==
    /\ pc["w1"] = "failed"
    /\ set_actions["w1"] = <<"quit_w1", "a1", "a2">>
    /\ DispatchLog("w1") = <<<<"call_action", "quit_w1">>, <<"clear", "quit_w1">>,
                            <<"call_action", "a1">>>>
    /\ Last(log["w1"]) = <<"raise", "a1">>
    /\ sig["s1"] /\ sig["s2"]

\* The worker w left run() in this step because hook h returned False.
Vetoed(w, h) ==
    /\ pc'[w] = "stopped"
    /\ Len(log'[w]) > 0
    /\ Last(log'[w]) = <<h, "False">>

\* The worker w left run() in this step because of an exception.
Raised(w) ==
    /\ pc'[w] = "failed"
    /\ Len(log'[w]) > 0
    /\ Last(log'[w])[1] = "raise"

\* C11: to_quit becomes true only in the dispatch step that calls the quit
\* action's callback, never during detection; and with to_quit true the worker
\* goes on through the rest of the iteration (the other dispatches,
\* do_postevents, do_work, do_result, do_postwork) as it would otherwise, and
\* leaves the loop on account of to_quit only at the loop test.
C11_QuitAtIterationBoundary ==
    [][\A w \in Workers :
          /\ to_quit'[w] # to_quit[w]
                => /\ to_quit'[w]
                   /\ pc[w] = "dispatch" /\ pc'[w] = "clear"
                   /\ set_actions[w][idx[w]] = QuitAct(w)
          /\ (to_quit[w] /\ pc'[w] # pc[w])
                => CASE pc[w] = "clear"      -> pc'[w] = "dispatch"
                     [] pc[w] = "dispatch"   -> pc'[w] \in {"clear", "postevents"} \/ Raised(w)
                     [] pc[w] = "postevents" -> pc'[w] = "work" \/ Raised(w)
                                                  \/ Vetoed(w, "do_postevents")
                     [] pc[w] = "work"       -> pc'[w] = "result" \/ Raised(w)
                     [] pc[w] = "result"     -> pc'[w] = "postwork" \/ Raised(w)
                     [] pc[w] = "postwork"   -> pc'[w] = "loop" \/ Raised(w)
                                                  \/ Vetoed(w, "do_postwork")
                     [] pc[w] = "loop"       -> pc'[w] = "stopped"
                     [] OTHER                -> FALSE]_vars

\* C11 witness: the quit callback has set to_quit in the first iteration, and
\* that iteration has gone on through do_work and do_result.
C11_Witness ==
    /\ to_quit["w1"]
    /\ passes["w1"] = 1
    /\ pc["w1"] = "postwork"
    /\ QuitAct("w1") \in Range(set_actions["w1"])
    /\ Last(log["w1"])[1] = "do_result"

\* C12: a poll of an action by check_events (EventAction.is_set) leaves every
\* Event as it was; the action is taken as signaled exactly when its Event is
\* set at the poll; the callback is invoked by the poll once when the Event is
\* set and the action automatic, and not at all otherwise.
C12_IsSetPoll ==
    [][\A w \in Workers :
          (pc[w] = "check" /\ idx[w] <= Len(actions[w])
             /\ (idx'[w] # idx[w] \/ pc'[w] # pc[w]))
          => LET a == actions[w][idx[w]]
                 s == sig[event[a]]
                 called == <<<<"is_set_call", a>>>>
             IN /\ sig' = sig
                /\ pc'[w] = "check"
                      => /\ idx'[w] = idx[w] + 1
                         /\ set_actions'[w] = IF s THEN Append(set_actions[w], a)
                                              ELSE set_actions[w]
                /\ (s /\ opt_automatic(a))
                      => /\ log'[w] \in {log[w] \o called,
                                         log[w] \o called \o <<<<"raise", a>>>>}
                         /\ a \in AutoActs => fired'[a] = Min(fired[a] + 1, MaxFired)
                /\ ~(s /\ opt_automatic(a))
                      => /\ log'[w] = log[w]
                         /\ fired' = fired
                         /\ pc'[w] = "check"]_vars

\* C12 witness: the poll of the automatic action a2 found its Event set, called
\* the callback and reported the action signaled.
C12_Witness ==
    /\ pc["w1"] = "check"
    /\ sig["s2"]
    /\ Len(log["w1"]) > 0 /\ Last(log["w1"]) = <<"is_set_call", "a2">>
    /\ Len(set_actions["w1"]) > 0 /\ Last(set_actions["w1"]) = "a2"
    /\ fired["a2"] = 1

\* The first action in registration order that was registered with Event e.
FirstRegistered(w, e) ==
    LET hits == {k \in DOMAIN actions[w] : event_by_action(w, actions[w][k]) = e}
    IN IF hits = {} THEN "None"
       ELSE actions[w][CHOOSE k \in hits : \A j \in hits : k <= j]

\* C13: action_by_event(e) is the first action in registration order among
\* those registered with Event e, and None when there is none.
C13_FirstInRegistrationOrder ==
    \A w \in Workers, e \in Signals : action_by_event(w, e) = FirstRegistered(w, e)

\* C15: the keys of actions_events are the registered actions, and
\* event_by_action gives for each of them the Event it is bound to now.
C15_MappingInSync ==
    \A w \in Workers :
        /\ DOMAIN actions_events[w] = Range(actions[w])
        /\ \A a \in Range(actions[w]) : event_by_action(w, a) = event[a]

\* The loop of w has exited: the while test failed, a hook returned False, or
\* an exception left run().
Exited(w) ==
    \/ pc[w] \in {"stopped", "failed"}
    \/ /\ log[w] # <<>>
       /\ \/ Last(log[w])[1] = "raise"
          \/ Last(log[w]) \in {<<h, "False">> : h \in {"do_command", "do_postevents", "do_postwork"}}

\* C14: once the loop of a worker has exited, the worker takes no further
\* step: no detection pass, no callback, no clear, no work and no hook, whatever
\* is set afterwards.
C14_StoppedIsTerminal ==
    [][\A w \in Workers :
          Exited(w) =>
             /\ pc[w] \in {"stopped", "failed"}
             /\ pc'[w] = pc[w]
             /\ log'[w] = log[w]
             /\ passes'[w] = passes[w]
             /\ idx'[w] = idx[w]
             /\ set_actions'[w] = set_actions[w]
             /\ to_quit'[w] = to_quit[w]
             /\ result'[w] = result[w]
             /\ \A a \in AutoActs : fired'[a] <= fired[a]]_vars

C14_Witness ==
    /\ pc["w1"] = "stopped"
    /\ to_quit["w1"]
    /\ actions["w1"] = <<"quit_w1", "a1", "a2">>
    /\ sig["q"] /\ sig["s1"] /\ sig["s2"]

\* Worker w has been constructed and has not failed while being set up.
Alive(w) == pc[w] \notin {"absent", "new"}

\* C16: to_quit starts false, becomes true only in the dispatch of the
\* worker's own quit action and never returns to false; with no hook
\* overridden and nothing raising, the loop is left only at the while test with
\* to_quit true, so a worker that has no quit action never stops.
C16_QuitFlagMonotone ==
    /\ \A w \in Workers : ~to_quit[w]
    /\ [][\A w \in Workers :
            /\ to_quit[w] => to_quit'[w]
            /\ (~to_quit[w] /\ to_quit'[w]) =>
                  /\ pc[w] = "dispatch" /\ pc'[w] = "clear"
                  /\ set_actions[w][idx[w]] = QuitAct(w)
                  /\ Last(log'[w]) = <<"call_action", QuitAct(w)>>
            /\ (pc'[w] # pc[w] /\ pc'[w] \in {"stopped", "failed"}) =>
                  /\ pc[w] = "loop" /\ pc'[w] = "stopped"
                  /\ to_quit[w]
            /\ QuitAct(w) \notin Range(actions[w]) =>
                  /\ pc'[w] \notin {"stopped", "failed"}
                  /\ ~to_quit'[w]]_vars

C16_Witness ==
    /\ QuitAct("w1") \notin Range(actions["w1"])
    /\ variant["w1"] = "polling"
    /\ passes["w1"] = MaxPasses
    /\ pc["w1"] = "postwork"
    /\ sig["q"]

\* C17: for a non-automatic action registered in a worker that runs for ever,
\* every set() of its Event by another thread is eventually followed by a call
\* of its callback that starts after the set().
C17_NoSignalLost ==
    (/\ hist.pending
     /\ main[1] = "started"
     /\ Tracked \in Range(actions["w1"])) ~> ~hist.pending

\* C19: for a non-automatic action that alone is bound to its Event, when only
\* the worker's dispatch clears that Event, the callback has been called at
\* most as many times as the Event has been set.
C19_CallsAtMostSets == hist.calls <= hist.sets

C19_Witness ==
    /\ hist.sets = 1 /\ hist.calls = 1
    /\ passes["w1"] = MaxPasses
    /\ pc["w1"] = "postwork"
    /\ Tracked \notin Range(set_actions["w1"])
    /\ ~sig[event[Tracked]]

\* The number of times the callback of a was invoked in what log[w] covers.
Invocations(w, a) ==
    Cardinality({k \in DOMAIN log[w] :
                    log[w][k] \in {<<"call_action", a>>, <<"is_set_call", a>>}})

\* C18: when the dispatch step of an iteration has ended without a failure
\* and without a stop by do_command, every non-automatic action that the
\* detection pass returned has had its callback invoked exactly once in the
\* iteration, whether or not its Event was still set when its turn came.
C18_BatchedDetection ==
    \A w \in Workers :
        pc[w] \in {"postevents", "work", "result", "postwork"} =>
            \A a \in Range(set_actions[w]) :
                ~opt_automatic(a) => Invocations(w, a) = 1

\* The quit Event was set once and nothing else touched it: the quit action's
\* dispatch cleared it before a1's turn came.
C18_Witness ==
    /\ ext = "done"
    /\ pc["w1"] = "postevents"
    /\ set_actions["w1"] = <<"quit_w1", "a1">>
    /\ event["a1"] = event["quit_w1"]
    /\ DispatchLog("w1") = FullDispatch(set_actions["w1"])
    /\ ~sig["q"]

====
